---- MODULE Spec2Model ----
(***************************************************************************)
(* A model of the MessageItem component of                                 *)
(* src/renderer/src/pages/home/components/Message.tsx: one chat message    *)
(* bubble with its action menu (Edit, Copy, Delete, Regenerate).           *)
(*                                                                         *)
(* The state is the component's props and the hook values it reads, its    *)
(* one piece of local state (copied), the tree its last render produced    *)
(* (view), the timers and confirmation dialogs its handlers have started   *)
(* and not yet seen finish, and the effects the handlers had on the host:  *)
(* the clipboard, the calls of the delete callback and the events emitted. *)
(*                                                                         *)
(* Time is kept per timer (the time elapsed since it was registered) and   *)
(* advances in steps of at most MaxAdvance; a timer fires when its delay   *)
(* has elapsed, and time does not advance past a timer that is due.        *)
(***************************************************************************)
EXTENDS Integers, Sequences, FiniteSets, TLC

\* ------------------------------------------------------------------ bounds

\* The user clicks at most MaxClicks times on the action buttons.
MaxClicks == 2

\* Time advances by at most MaxAdvance milliseconds in one step.
MaxAdvance == 500

\* ------------------------------------------------------- program constants

\* setTimeout(() => setCopied(false), 2000)
CopyDelay == 2000

\* setTimeout(() => EventEmitter.emit(EVENT_NAMES.REGENERATE_MESSAGE), 100)
RegenDelay == 100

\* index?: number -- the prop left out.
NoIndex == -1

\* ---------------------------------------------------------------- strings

\* A displayed name is a sequence of characters; "EMOJI" stands for one emoji.
NamePool ==
  { <<>>, <<"a", "b">>, <<"EMOJI", "EMOJI", "a">>, <<"b", "EMOJI">> }

\* t('common.you')
You == <<"y", "o", "u">>

toUpper(c) ==
  CASE c = "a" -> "A"
    [] c = "b" -> "B"
    [] c = "y" -> "Y"
    [] c = "o" -> "O"
    [] c = "u" -> "U"
    [] OTHER -> c

\* lodash upperFirst: the first character upper-cased, the rest untouched.
upperFirst(s) ==
  IF s = <<>> THEN <<>> ELSE <<toUpper(Head(s))>> \o Tail(s)

\* removeLeadingEmoji of @renderer/utils: the emoji at the start are dropped.
RECURSIVE removeLeadingEmoji(_)
removeLeadingEmoji(s) ==
  IF s # <<>> /\ Head(s) = "EMOJI" THEN removeLeadingEmoji(Tail(s)) ELSE s

\* ------------------------------------------------------------ the message

Roles == {"user", "assistant"}

Statuses == {"sending", "success"}

\* message.usage is an object or undefined.
Usages == {"undefined", "present"}

AllMessages ==
  [id : {"assistant", "m1"}, role : Roles, content : {"hello"},
   modelId : NamePool, status : Statuses, usage : Usages]

UserMsg ==
  [id |-> "m1", role |-> "user", content |-> "question",
   modelId |-> <<>>, status |-> "success", usage |-> "undefined"]

AssistantMsg ==
  [id |-> "m2", role |-> "assistant", content |-> "answer",
   modelId |-> <<"a", "b">>, status |-> "success", usage |-> "present"]

\* The messages the interaction specification passes as the message prop.
MsgPool == {UserMsg, AssistantMsg}

Indices == {NoIndex, 0, 1}

\* onDeleteMessage?: (message: Message) => void
Callbacks == {"undefined", "handler"}

VARIABLES
  message,          \* props.message
  index,            \* props.index
  showMenu,         \* props.showMenu (undefined renders as false)
  onDeleteMessage,  \* props.onDeleteMessage
  generating,       \* useRuntime().generating
  userName,         \* useSettings().userName (<<>>: unset)
  assistantName,    \* useAssistant(message.assistantId).assistant.name
  copied,           \* useState(false)
  view,             \* what the last render returned
  copyTimers,       \* pending timers of onCopy, in registration order
  regenTimers,      \* pending timers of onRegenerate, in registration order
  dialogs,          \* the confirmation dialogs opened by onDelete
  clipboard,        \* the text last written to the clipboard
  notices,          \* number of "copied" notices shown
  deleteCalls,      \* the calls of the delete callback, in order
  events,           \* the events emitted on EventEmitter, in order
  clickLog          \* the clicks so far: which button, on which message

vars ==
  <<message, index, showMenu, onDeleteMessage, generating, userName,
    assistantName, copied, view, copyTimers, regenTimers, dialogs, clipboard,
    notices, deleteCalls, events, clickLog>>

propVars == <<message, index, showMenu, onDeleteMessage>>
hookVars == <<generating, userName, assistantName>>
effectVars == <<clipboard, notices, deleteCalls, events>>

\* ----------------------------------------------------------------- render

isLastMessage(idx) == idx = 0

isUserMessage(m) == m.role = "user"

isAssistantMessage(m) == m.role = "assistant"

canRegenerateAnyIndex(idx, m) == isAssistantMessage(m)

canRegenerate(idx, m) == isLastMessage(idx) /\ isAssistantMessage(m)

getUserNameRoleFirst(m, an, un) ==
  IF m.role = "assistant" THEN upperFirst(m.modelId)
  ELSE IF m.id = "assistant" THEN an
  ELSE IF un # <<>> THEN un ELSE You

getUserName(m, an, un) ==
  IF m.id = "assistant" THEN an
  ELSE IF m.role = "assistant" THEN upperFirst(m.modelId)
  ELSE IF un # <<>> THEN un ELSE You

username(m, an, un) == removeLeadingEmoji(getUserName(m, an, un))

ShowsLoading(m) == m.status = "sending"

ShowsMarkdownAlways(m) == TRUE

ShowsMarkdown(m) == m.status # "sending"

ShowsUsageWhileGenerating(m, gen) == m.usage # "undefined"

ShowsUsage(m, gen) == m.usage # "undefined" /\ ~gen

ShowsEditAlways(m) == TRUE

ShowsEdit(m) == m.role = "user"

MenuElements(m, idx, cp) ==
  {"MenusBar", "Copy", "Delete"}
    \cup (IF ShowsEdit(m) THEN {"Edit"} ELSE {})
    \cup (IF cp THEN {"CheckOutlined"} ELSE {"CopyOutlined"})
    \cup (IF canRegenerate(idx, m) THEN {"Regenerate"} ELSE {})
    \cup (IF ~isUserMessage(m) THEN {"Dropdown"} ELSE {})

MessageItem(m, idx, sm, gen, un, an, cp) ==
  [username |-> username(m, an, un),
   elements |->
     (IF ShowsLoading(m) THEN {"MessageContentLoading"} ELSE {})
       \cup (IF ShowsMarkdown(m) THEN {"Markdown"} ELSE {})
       \cup (IF ShowsUsage(m, gen) THEN {"MessageMetadata"} ELSE {})
       \cup (IF sm THEN MenuElements(m, idx, cp) ELSE {})]

\* React renders again after every change of the props, hooks or state.
Rendered ==
  view' = MessageItem(message', index', showMenu', generating', userName',
                      assistantName', copied')

\* --------------------------------------------------------------- handlers

NextClick == Len(clickLog) + 1

CanClick(button) == Len(clickLog) < MaxClicks /\ button \in view.elements

Clicked(kind) ==
  clickLog' = Append(clickLog, [kind |-> kind, message |-> message])

NewTimer(delay) == [click |-> NextClick, delay |-> delay, elapsed |-> 0]

Due(t) == t.elapsed >= t.delay

\* () => setCopied(false)
onCopyTimeoutToggle(cp) == ~cp

onCopyTimeout(cp) == FALSE

\* onCopy
ClickCopy ==
  /\ CanClick("Copy")
  /\ clipboard' = message.content
  /\ notices' = notices + 1
  /\ copied' = TRUE
  /\ copyTimers' = Append(copyTimers, NewTimer(CopyDelay))
  /\ Clicked("copy")
  /\ UNCHANGED <<propVars, hookVars, regenTimers, dialogs, deleteCalls, events>>
  /\ Rendered

\* The 2000ms timer of onCopy fires.
FireCopyTimer ==
  /\ copyTimers # <<>>
  /\ Due(Head(copyTimers))
  /\ copied' = onCopyTimeout(copied)
  /\ copyTimers' = Tail(copyTimers)
  /\ UNCHANGED <<propVars, hookVars, regenTimers, dialogs, effectVars, clickLog>>
  /\ Rendered

\* onDelete up to its await: the dialog opens, the closure keeps the message
\* and the callback of the render the click happened in.
ClickDelete ==
  /\ CanClick("Delete")
  /\ dialogs' = Append(dialogs,
       [click |-> NextClick, message |-> message,
        onDeleteMessage |-> onDeleteMessage, result |-> "pending"])
  /\ Clicked("delete")
  /\ UNCHANGED <<propVars, hookVars, copied, copyTimers, regenTimers, effectVars>>
  /\ Rendered

\* confirmed && onDeleteMessage?.(message)
onDeleteUnconfirmed(d, confirmed) ==
  IF d.onDeleteMessage # "undefined"
    THEN <<[message |-> d.message, click |-> d.click]>>
    ELSE <<>>

onDeleteContinuation(d, confirmed) ==
  IF confirmed /\ d.onDeleteMessage # "undefined"
    THEN <<[message |-> d.message, click |-> d.click]>>
    ELSE <<>>

\* window.modal.confirm resolves and onDelete runs on from its await.
ResolveDialog ==
  \E i \in DOMAIN dialogs, confirmed \in BOOLEAN :
    /\ dialogs[i].result = "pending"
    /\ dialogs' = [dialogs EXCEPT ![i].result = IF confirmed THEN "true" ELSE "false"]
    /\ deleteCalls' = deleteCalls \o onDeleteContinuation(dialogs[i], confirmed)
    /\ UNCHANGED <<propVars, hookVars, copied, copyTimers, regenTimers,
                   clipboard, notices, events, clickLog>>
    /\ Rendered

\* onEdit
ClickEdit ==
  /\ CanClick("Edit")
  /\ events' = Append(events,
       [name |-> "EDIT_MESSAGE", args |-> <<message>>, click |-> NextClick, at |-> 0])
  /\ Clicked("edit")
  /\ UNCHANGED <<propVars, hookVars, copied, copyTimers, regenTimers, dialogs,
                 clipboard, notices, deleteCalls>>
  /\ Rendered

\* onDeleteMessage?.(message) in onRegenerate
onRegenerateNoDelete(m, cb, click) == <<>>

onRegenerateDelete(m, cb, click) ==
  IF cb # "undefined" THEN <<[message |-> m, click |-> click]>> ELSE <<>>

RegenerateEvent(click, at) ==
  [name |-> "REGENERATE_MESSAGE", args |-> <<>>, click |-> click, at |-> at]

\* setTimeout(() => EventEmitter.emit(EVENT_NAMES.REGENERATE_MESSAGE), 100):
\* what the call adds to the pending timers and to the events emitted.
onRegenerateEmitNow(click) ==
  [timers |-> <<>>, events |-> <<RegenerateEvent(click, 0)>>]

onRegenerateSchedule(click) ==
  [timers |-> <<NewTimer(RegenDelay)>>, events |-> <<>>]

\* onRegenerate
ClickRegenerate ==
  /\ CanClick("Regenerate")
  /\ deleteCalls' = deleteCalls \o onRegenerateDelete(message, onDeleteMessage, NextClick)
  /\ regenTimers' = regenTimers \o onRegenerateSchedule(NextClick).timers
  /\ events' = events \o onRegenerateSchedule(NextClick).events
  /\ Clicked("regenerate")
  /\ UNCHANGED <<propVars, hookVars, copied, copyTimers, dialogs, clipboard, notices>>
  /\ Rendered

\* The 100ms timer of onRegenerate fires.
FireRegenTimer ==
  /\ regenTimers # <<>>
  /\ Due(Head(regenTimers))
  /\ events' = Append(events,
       RegenerateEvent(Head(regenTimers).click, Head(regenTimers).elapsed))
  /\ regenTimers' = Tail(regenTimers)
  /\ UNCHANGED <<propVars, hookVars, copied, copyTimers, dialogs,
                 clipboard, notices, deleteCalls, clickLog>>
  /\ Rendered

Min(S) == CHOOSE x \in S : \A y \in S : x <= y

Remaining(timers) == {timers[i].delay - timers[i].elapsed : i \in DOMAIN timers}

\* The time to the next moment a timer is due, and at most MaxAdvance.
Quantum == Min({MaxAdvance} \cup Remaining(copyTimers) \cup Remaining(regenTimers))

Advance(timers) ==
  [i \in DOMAIN timers |-> [timers[i] EXCEPT !.elapsed = @ + Quantum]]

\* Time passes, up to the next moment a timer is due: no timer is due now, and
\* some timer is waiting.
Tick ==
  /\ copyTimers # <<>> \/ regenTimers # <<>>
  /\ \A i \in DOMAIN copyTimers : ~Due(copyTimers[i])
  /\ \A i \in DOMAIN regenTimers : ~Due(regenTimers[i])
  /\ copyTimers' = Advance(copyTimers)
  /\ regenTimers' = Advance(regenTimers)
  /\ UNCHANGED <<propVars, hookVars, copied, dialogs, effectVars, clickLog>>
  /\ Rendered

\* ------------------------------------------------- the parent and the hooks

\* The parent passes another message.
SetMessage(Msgs) ==
  /\ message' \in Msgs
  /\ UNCHANGED <<index, showMenu, onDeleteMessage, hookVars, copied, copyTimers,
                 regenTimers, dialogs, effectVars, clickLog>>
  /\ Rendered

\* The parent passes other values of index, showMenu and onDeleteMessage.
SetMenuProps ==
  /\ index' \in Indices
  /\ showMenu' \in BOOLEAN
  /\ onDeleteMessage' \in Callbacks
  /\ UNCHANGED <<message, hookVars, copied, copyTimers, regenTimers, dialogs,
                 effectVars, clickLog>>
  /\ Rendered

\* The stores behind useRuntime, useSettings and useAssistant change.
SetHooks ==
  /\ generating' \in BOOLEAN
  /\ userName' \in NamePool
  /\ assistantName' \in NamePool
  /\ UNCHANGED <<propVars, copied, copyTimers, regenTimers, dialogs,
                 effectVars, clickLog>>
  /\ Rendered

\* ----------------------------------------------------------- specifications

Mounted(Msgs) ==
  /\ message \in Msgs
  /\ index \in Indices
  /\ showMenu \in BOOLEAN
  /\ onDeleteMessage \in Callbacks
  /\ copied = FALSE
  /\ view = MessageItem(message, index, showMenu, generating, userName,
                        assistantName, copied)
  /\ copyTimers = <<>>
  /\ regenTimers = <<>>
  /\ dialogs = <<>>
  /\ clipboard = ""
  /\ notices = 0
  /\ deleteCalls = <<>>
  /\ events = <<>>
  /\ clickLog = <<>>

\* The component as mounted, before any click.
Init ==
  /\ generating = FALSE
  /\ userName = <<>>
  /\ assistantName = <<"EMOJI", "EMOJI", "a">>
  /\ Mounted(MsgPool)

Next ==
  \/ SetMessage(MsgPool)
  \/ SetMenuProps
  \/ ClickCopy
  \/ FireCopyTimer
  \/ ClickDelete
  \/ ResolveDialog
  \/ ClickEdit
  \/ ClickRegenerate
  \/ FireRegenTimer
  \/ Tick

Spec == Init /\ [][Next]_vars

\* The Copy button alone: its clicks, its timers and the passage of time,
\* while the parent changes the props.
CopyNext ==
  \/ SetMessage(MsgPool)
  \/ SetMenuProps
  \/ ClickCopy
  \/ FireCopyTimer
  \/ Tick

\* The event loop runs every timer that is due, and time goes on.
CopySpec ==
  Init /\ [][CopyNext]_vars /\ WF_vars(Tick) /\ WF_vars(FireCopyTimer)

\* The render alone, over every message and every value of the hooks.
RenderInit ==
  /\ generating \in BOOLEAN
  /\ userName \in NamePool
  /\ assistantName \in NamePool
  /\ Mounted(AllMessages)

RenderNext ==
  \/ SetMessage(AllMessages)
  \/ SetMenuProps
  \/ SetHooks

RenderSpec == RenderInit /\ [][RenderNext]_vars

TypeOK ==
  /\ message \in AllMessages \cup MsgPool
  /\ copied \in BOOLEAN
  /\ Len(clickLog) <= MaxClicks

\* ------------------------------------------------------------------ claims

CallsOf(c) == {i \in DOMAIN deleteCalls : deleteCalls[i].click = c}

EventsOf(c) == {i \in DOMAIN events : events[i].click = c}

ClicksOf(kind) == {c \in DOMAIN clickLog : clickLog[c].kind = kind}

DialogOf(c) == {i \in DOMAIN dialogs : dialogs[i].click = c}

PendingTimerOf(timers, c) == {i \in DOMAIN timers : timers[i].click = c}

\* This step is a click on the button `kind`.
IsClick(kind) ==
  /\ Len(clickLog') = Len(clickLog) + 1
  /\ clickLog'[Len(clickLog')].kind = kind

\* C1: every Delete click opens one dialog; while the dialog is pending, and
\* when it resolved false, the delete callback was not invoked for the click;
\* when it resolved true, the callback supplied at the click was invoked
\* exactly once, with the message shown at the click.
C1_DeleteGatedByConfirmation ==
  \A c \in ClicksOf("delete") :
    /\ Cardinality(DialogOf(c)) = 1
    /\ \A i \in DialogOf(c) :
         /\ dialogs[i].result \in {"pending", "false"} => CallsOf(c) = {}
         /\ dialogs[i].result = "true" /\ dialogs[i].onDeleteMessage # "undefined" =>
              /\ Cardinality(CallsOf(c)) = 1
              /\ \A j \in CallsOf(c) : deleteCalls[j].message = clickLog[c].message

\* C1's case: one dialog confirmed and its callback invoked with the message
\* of the click after the parent passed another message, another declined.
C1_Witness ==
  \E i, j \in DOMAIN dialogs :
    /\ dialogs[i].result = "true"
    /\ dialogs[i].onDeleteMessage = "handler"
    /\ dialogs[i].message # message
    /\ CallsOf(dialogs[i].click) # {}
    /\ dialogs[j].result = "false"

\* C2: after every Copy click the indicator is true until 2000ms have passed
\* since that click, and false once 2000ms have passed since the last click.
C2_CopiedFor2000msAfterEveryClick ==
  /\ \A i \in DOMAIN copyTimers : copyTimers[i].elapsed < CopyDelay => copied
  /\ copyTimers = <<>> => ~copied

\* C3: a Regenerate click invokes the supplied delete callback once, at the
\* click and with the message of the click, emits nothing at the click, and
\* emits REGENERATE_MESSAGE exactly once, 100ms after the click.
C3_RegenerateDeletesThenEmits ==
  /\ [](\A c \in ClicksOf("regenerate") :
          /\ Cardinality(CallsOf(c)) <= 1
          /\ \A j \in CallsOf(c) : deleteCalls[j].message = clickLog[c].message
          /\ \A e \in EventsOf(c) :
               /\ events[e].name = "REGENERATE_MESSAGE"
               /\ events[e].at = RegenDelay
          /\ IF PendingTimerOf(regenTimers, c) # {}
               THEN EventsOf(c) = {}
               ELSE Cardinality(EventsOf(c)) = 1)
  /\ [][IsClick("regenerate") =>
          /\ events' = events
          /\ onDeleteMessage # "undefined" =>
               deleteCalls' =
                 Append(deleteCalls, [message |-> message, click |-> NextClick])]_vars

\* C3's case: two Regenerate clicks, each with its delete call and its event.
C3_Witness ==
  /\ Cardinality(ClicksOf("regenerate")) = 2
  /\ \A c \in ClicksOf("regenerate") :
       Cardinality(CallsOf(c)) = 1 /\ Cardinality(EventsOf(c)) = 1

\* C4: Regenerate is rendered only when index = 0, the role is assistant and
\* the menu is shown; a Regenerate click happens only then; and every
\* REGENERATE_MESSAGE event comes from a Regenerate click on an
\* assistant-authored message.
C4_RegenerateOnlyLastAssistant ==
  /\ []("Regenerate" \in view.elements =>
          index = 0 /\ message.role = "assistant" /\ showMenu)
  /\ [](\A e \in DOMAIN events : events[e].name = "REGENERATE_MESSAGE" =>
          /\ events[e].click \in ClicksOf("regenerate")
          /\ clickLog[events[e].click].message.role = "assistant")
  /\ [][IsClick("regenerate") =>
          index = 0 /\ message.role = "assistant" /\ showMenu]_vars

\* C4's case: a REGENERATE_MESSAGE event was emitted, and the component now
\* shows a user-authored message with the menu and without Regenerate.
C4_Witness ==
  /\ \E e \in DOMAIN events : events[e].name = "REGENERATE_MESSAGE"
  /\ message.role = "user"
  /\ showMenu
  /\ index = 0
  /\ "Regenerate" \notin view.elements

\* C5: the loading indicator is rendered exactly when status = 'sending', the
\* body exactly when status # 'sending'; never both, never neither.
C5_LoadingXorBody ==
  /\ ("MessageContentLoading" \in view.elements) <=> (message.status = "sending")
  /\ ("Markdown" \in view.elements) <=> (message.status # "sending")
  /\ ("MessageContentLoading" \in view.elements) # ("Markdown" \in view.elements)

\* C5's case: a message being sent, rendered with the indicator and no body.
C5_Witness ==
  /\ message.status = "sending"
  /\ "MessageContentLoading" \in view.elements
  /\ "Markdown" \notin view.elements

\* C6: the usage footer is rendered exactly when message.usage is present and
\* generating is false.
C6_UsageFooterIff ==
  ("MessageMetadata" \in view.elements)
    <=> (message.usage # "undefined" /\ ~generating)

\* C6's case: the footer of a message being sent, the menu not shown.
C6_Witness ==
  /\ message.status = "sending"
  /\ ~showMenu
  /\ message.usage = "present"
  /\ ~generating
  /\ "MessageMetadata" \in view.elements

\* The name C7 gives, before the emoji are stripped.
C7_Expected ==
  IF message.id = "assistant" THEN assistantName
  ELSE IF message.role = "assistant" THEN upperFirst(message.modelId)
  ELSE IF userName # <<>> THEN userName
  ELSE You

\* C7: the displayed name is the name of the priority (sentinel id: the
\* assistant's name; else role assistant: the capitalized model id; else the
\* user name, or 'you' when unset) less its leading emoji.
C7_DisplayNamePriority ==
  \E k \in 0 .. Len(C7_Expected) :
    /\ \A j \in 1 .. k : C7_Expected[j] = "EMOJI"
    /\ C7_Expected # <<>> /\ Head(C7_Expected) = "EMOJI" => k >= 1
    /\ view.username = SubSeq(C7_Expected, k + 1, Len(C7_Expected))

\* C7's case: the sentinel id on a user-authored message, the assistant's name
\* starting with emoji.
C7_Witness ==
  /\ message.id = "assistant"
  /\ message.role = "user"
  /\ userName = <<"a", "b">>
  /\ assistantName = <<"EMOJI", "EMOJI", "a">>
  /\ view.username = <<"a">>

\* C8: Edit is rendered only for a user-authored message with the menu shown;
\* every Edit click emitted exactly one EDIT_MESSAGE event carrying the message
\* of the click; every EDIT_MESSAGE event carries a user-authored message.
C8_EditOnlyUser ==
  /\ "Edit" \in view.elements => message.role = "user" /\ showMenu
  /\ \A c \in ClicksOf("edit") :
       /\ Cardinality(EventsOf(c)) = 1
       /\ \A e \in EventsOf(c) :
            /\ events[e].name = "EDIT_MESSAGE"
            /\ events[e].args = <<clickLog[c].message>>
  /\ \A e \in DOMAIN events : events[e].name = "EDIT_MESSAGE" =>
       /\ events[e].click \in ClicksOf("edit")
       /\ events[e].args[1].role = "user"

\* C8's case: two Edit clicks, and the component now shows an
\* assistant-authored message with the menu and without Edit.
C8_Witness ==
  /\ Cardinality(ClicksOf("edit")) = 2
  /\ Len(events) = 2
  /\ message.role = "assistant"
  /\ showMenu
  /\ "Edit" \notin view.elements

\* C9: the indicator is true only while a timer of onCopy is pending, a timer
\* firing leaves it false, and it is eventually false for good.
C9_CopiedEventuallyFalse ==
  /\ [](copyTimers = <<>> => ~copied)
  /\ [][Len(copyTimers') < Len(copyTimers) => ~copied']_vars
  /\ <>[](~copied)

\* C9's case: two Copy clicks, both timers fired, the indicator false.
C9_Witness ==
  /\ Cardinality(ClicksOf("copy")) = 2
  /\ copyTimers = <<>>
  /\ ~copied

\* C10: every call of the delete callback comes from a Delete click whose
\* dialog resolved true or from a Regenerate click; a Regenerate click calls
\* the supplied callback at the click and opens no dialog.
C10_DeleteCallsHaveCause ==
  /\ [](\A j \in DOMAIN deleteCalls :
          \/ /\ deleteCalls[j].click \in ClicksOf("delete")
             /\ \E i \in DialogOf(deleteCalls[j].click) : dialogs[i].result = "true"
          \/ deleteCalls[j].click \in ClicksOf("regenerate"))
  /\ [][IsClick("regenerate") =>
          /\ dialogs' = dialogs
          /\ onDeleteMessage # "undefined" => Len(deleteCalls') = Len(deleteCalls) + 1]_vars

\* C10's case: a Regenerate click called the callback while the dialog of an
\* earlier Delete click was pending.
C10_Witness ==
  \E i \in DOMAIN dialogs, j \in DOMAIN deleteCalls :
    /\ dialogs[i].result = "pending"
    /\ deleteCalls[j].click \in ClicksOf("regenerate")
    /\ deleteCalls[j].click > dialogs[i].click

====
